---------------------------- MODULE Spec2Model ----------------------------
(***************************************************************************)
(* A model of sqlite-ts: DatabaseFileParser.parse() and the record helpers *)
(* it is built on (readVarint, getSerialTypeSize, parseSerialTypeValue,    *)
(* parseCellPayload, parseTableLeafCell).                                  *)
(*                                                                         *)
(* Conventions.  A buffer is a sequence of bytes (0..255); the element at  *)
(* zero-based index i of the source is buffer[i+1].  A JavaScript string   *)
(* is the sequence of its UTF-16 code units.  The value undefined, read    *)
(* past the end of an array of strings, is Undefined.  A JavaScript number *)
(* produced by the bitwise operators is a signed 32-bit integer.           *)
(***************************************************************************)
EXTENDS Integers, Sequences, FiniteSets, TLC

VARIABLES
    file,                \* the bytes of the database file behind fileHandle
    pc,                  \* position of parse(): the await it is about to run
    databaseFileHeader,  \* this.databaseFileHeader
    databasePageHeader,  \* this.databasePageHeader
    cellPointersArray,   \* this.cellPointersArray
    pageBuffer,          \* this.pageBuffer
    result,              \* what parse() settled with
    call,                \* the helper called last, with its arguments
    ret                  \* the helper that returned last, and what it returned

vars == <<file, pc, databaseFileHeader, databasePageHeader, cellPointersArray,
          pageBuffer, result, call, ret>>

parserVars == <<file, pc, databaseFileHeader, databasePageHeader,
                cellPointersArray, pageBuffer, result>>

helperVars == <<call, ret>>

---------------------------------------------------------------------------
(* Bytes, buffers and 32-bit integers                                      *)

Byte == 0..255

\* The value undefined where a string is expected (no code unit is negative).
Undefined == <<-1>>

\* Uint8Array.prototype.subarray(begin, end) for 0 <= begin: both ends are
\* clamped to the length of the buffer.
Subarray(buffer, begin, end) ==
    LET e == IF end > Len(buffer) THEN Len(buffer) ELSE end
        b == IF begin > e THEN e ELSE begin
    IN  [i \in 1..(e - b) |-> buffer[b + i]]

\* buffer.subarray(begin)
SubarrayFrom(buffer, begin) == Subarray(buffer, begin, Len(buffer))

\* The two's complement bit positions (0..31) that are set in the int32 n
\* (m is n, evaluated once).
Bits32(n) ==
    UNION { IF m >= 0
            THEN {i \in 0..30 : (m \div (2^i)) % 2 = 1}
            ELSE {31} \cup {i \in 0..30 : (((m + 2^30) + 2^30) \div (2^i)) % 2 = 1}
            : m \in {n} }

RECURSIVE SumPow2(_)
SumPow2(S) ==
    IF S = {} THEN 0
    ELSE CHOOSE r \in {2^i + SumPow2(T \ {i}) :
                          T \in {S}, i \in {CHOOSE x \in S : TRUE}} : TRUE

\* The int32 whose two's complement bits are S (T is S, evaluated once).
FromBits32(S) ==
    CHOOSE r \in {IF 31 \in T THEN (SumPow2(T \ {31}) - 2^30) - 2^30
                  ELSE SumPow2(T) : T \in {S}} : TRUE

\* x << s of JavaScript: the shift count is taken modulo 32 and the bits
\* shifted past bit 31 are lost.
ShiftLeft32(x, s) ==
    FromBits32({i + (s % 32) : i \in Bits32(x)} \cap (0..31))

\* x | y of JavaScript.
Or32(x, y) == FromBits32(Bits32(x) \cup Bits32(y))

\* Big-endian unsigned reads of a DataView; offset is zero-based.
getUint8(view, offset) == view[offset + 1]

getUint16(view, offset) == view[offset + 1] * 256 + view[offset + 2]

\* getInt8: the byte as a signed 8-bit integer.
getInt8(view, offset) ==
    IF view[offset + 1] >= 128 THEN view[offset + 1] - 256 ELSE view[offset + 1]

---------------------------------------------------------------------------
(* readVarint                                                              *)

RECURSIVE readVarintLoop(_, _, _, _)
readVarintLoop(buffer, index, shift, acc) ==
    IF index < Len(buffer) /\ index < 8
    THEN LET byte == buffer[index + 1]
             r    == Or32(acc, ShiftLeft32(byte % 128, shift))
         IN  IF byte < 128
             THEN [value |-> r, nextOffset |-> index + 1]
             ELSE readVarintLoop(buffer, index + 1, shift + 7, r)
    ELSE [value |-> acc, nextOffset |-> index + 1]

\* A readVarint that reports the bytes it read, none for an empty buffer:
\* what C11_PayloadTerminates must tell apart from readVarint.
readVarintBytesRead(buffer) ==
    [value |-> readVarintLoop(buffer, 0, 0, 0).value,
     nextOffset |-> readVarintLoop(buffer, 0, 0, 0).nextOffset - 1]

readVarint(buffer) == readVarintLoop(buffer, 0, 0, 0)

---------------------------------------------------------------------------
(* JavaScript strings                                                      *)

\* The code units of a code point: itself, or a surrogate pair.
CodeUnits(c) ==
    IF c < 65536 THEN <<c>>
    ELSE <<55296 + ((c - 65536) \div 1024), 56320 + ((c - 65536) % 1024)>>

\* buffer.toString("utf-8"): the UTF-8 decoder, which replaces every
\* ill-formed subsequence by U+FFFD.  cp is the code point being assembled,
\* needed the continuation bytes still expected, lower..upper the range the
\* next continuation byte must lie in.
RECURSIVE utf8Loop(_, _, _, _, _, _)
utf8Loop(b, i, cp, needed, lower, upper) ==
    IF i > Len(b) THEN (IF needed > 0 THEN <<65533>> ELSE <<>>)
    ELSE LET x == b[i] IN
         IF needed = 0
         THEN IF x < 128 THEN <<x>> \o utf8Loop(b, i + 1, 0, 0, 128, 191)
              ELSE IF x >= 194 /\ x <= 223
                   THEN utf8Loop(b, i + 1, x % 32, 1, 128, 191)
              ELSE IF x >= 224 /\ x <= 239
                   THEN utf8Loop(b, i + 1, x % 16, 2,
                                 IF x = 224 THEN 160 ELSE 128,
                                 IF x = 237 THEN 159 ELSE 191)
              ELSE IF x >= 240 /\ x <= 244
                   THEN utf8Loop(b, i + 1, x % 8, 3,
                                 IF x = 240 THEN 144 ELSE 128,
                                 IF x = 244 THEN 143 ELSE 191)
              ELSE <<65533>> \o utf8Loop(b, i + 1, 0, 0, 128, 191)
         ELSE IF x < lower \/ x > upper
              THEN <<65533>> \o utf8Loop(b, i, 0, 0, 128, 191)
              ELSE LET c == cp * 64 + (x % 64) IN
                   IF needed = 1
                   THEN CodeUnits(c) \o utf8Loop(b, i + 1, 0, 0, 128, 191)
                   ELSE utf8Loop(b, i + 1, c, needed - 1, 128, 191)

IsContinuation(x) == x >= 128 /\ x <= 191

\* The decoder is between two code points before position m: at a byte that
\* continues nothing, and after three bytes that are continuations.
BetweenCodePoints(b, m) ==
    \/ ~IsContinuation(b[m])
    \/ IsContinuation(b[m - 1]) /\ IsContinuation(b[m - 2]) /\ IsContinuation(b[m - 3])

\* The decoding of b[lo..hi], long inputs cut in two where the decoder is
\* between code points (one of any four consecutive positions is such).
RECURSIVE utf8Decode(_, _, _)
utf8Decode(b, lo, hi) ==
    IF hi - lo < 16 THEN utf8Loop(SubSeq(b, lo, hi), 1, 0, 0, 128, 191)
    ELSE LET mid == (lo + hi) \div 2
             m   == CHOOSE k \in mid..(mid + 3) : BetweenCodePoints(b, k)
         IN  utf8Decode(b, lo, m - 1) \o utf8Decode(b, m, hi)

toStringUtf8(buffer) == utf8Decode(buffer, 1, Len(buffer))

HexDigit(n) == IF n < 10 THEN 48 + n ELSE 87 + n

\* buffer.toString("hex"): two lower-case hexadecimal digits per byte.
toStringHex(buffer) ==
    [i \in 1..(2 * Len(buffer)) |->
        IF i % 2 = 1 THEN HexDigit(buffer[(i + 1) \div 2] \div 16)
        ELSE HexDigit(buffer[i \div 2] % 16)]

\* Decimal digits, least significant first, of 256 * d + carry.
RECURSIVE MulAddDigits(_, _, _)
MulAddDigits(d, i, carry) ==
    IF i > Len(d)
    THEN IF carry = 0 THEN <<>>
         ELSE <<carry % 10>> \o MulAddDigits(d, i, carry \div 10)
    ELSE LET t == d[i] * 256 + carry
         IN  <<t % 10>> \o MulAddDigits(d, i + 1, t \div 10)

\* Decimal digits, least significant first, of the unsigned big-endian bytes.
RECURSIVE DecimalDigits(_, _, _)
DecimalDigits(bytes, i, d) ==
    IF i > Len(bytes) THEN d
    ELSE CHOOSE r \in {DecimalDigits(bytes, i + 1, next) :
                          next \in {MulAddDigits(d, 1, bytes[i])}} : TRUE

RECURSIVE Increment(_, _)
Increment(bytes, i) ==
    IF i = 0 THEN bytes
    ELSE IF bytes[i] = 255 THEN Increment([bytes EXCEPT ![i] = 0], i - 1)
    ELSE [bytes EXCEPT ![i] = bytes[i] + 1]

\* Number.prototype.toString / BigInt.prototype.toString of the signed
\* big-endian integer held in bytes (1 to 8 of them): a minus sign for a
\* negative value, then the decimal digits of its magnitude.
SignedToString(bytes) ==
    LET neg    == bytes[1] >= 128
        mag    == IF neg
                  THEN Increment([i \in 1..Len(bytes) |-> 255 - bytes[i]], Len(bytes))
                  ELSE bytes
        d      == DecimalDigits(mag, 1, <<>>)
        digits == IF d = <<>> THEN <<48>>
                  ELSE [i \in 1..Len(d) |-> 48 + d[Len(d) + 1 - i]]
    IN  (IF neg THEN <<45>> ELSE <<>>) \o digits

\* The four big-endian bytes of the int32 n.
Int32Bytes(n) ==
    LET u == IF n >= 0 THEN n ELSE (n + 2^30) + 2^30
        top == (u \div 16777216) + (IF n >= 0 THEN 0 ELSE 128)
    IN  <<top, (u \div 65536) % 256, (u \div 256) % 256, u % 256>>

\* `${n}` for an integer n.
NumberToString(n) == SignedToString(Int32Bytes(n))

\* readDoubleBE(0).toString(): the decimal rendering of the IEEE double is
\* kept as the eight bytes it is a function of, behind a tag no code unit
\* equals.
DoubleToString(bytes) == <<-7>> \o bytes

---------------------------------------------------------------------------
(* parseSerialTypeValue, getSerialTypeSize                                 *)

Returned(v) == [throws |-> FALSE, value |-> v]

\* A RangeError thrown by a Buffer read past the end of the buffer.
Thrown == [throws |-> TRUE, value |-> <<>>]

\* buffer.readInt8 / readInt16BE / readIntBE / readInt32BE / readBigInt64BE
\* at offset 0, then toString(): width bytes are needed.
readIntToString(buffer, width) ==
    IF Len(buffer) < width THEN Thrown
    ELSE Returned(SignedToString(Subarray(buffer, 0, width)))

parseSerialTypeValue(buffer, targetSerialType, id) ==
    IF targetSerialType >= 13 /\ targetSerialType % 2 = 1
        THEN Returned(toStringUtf8(buffer))
    ELSE IF targetSerialType >= 12 /\ targetSerialType % 2 = 0
        THEN Returned(toStringHex(buffer))
    ELSE IF targetSerialType = 1 THEN readIntToString(buffer, 1)
    ELSE IF targetSerialType = 2 THEN readIntToString(buffer, 2)
    ELSE IF targetSerialType = 3 THEN readIntToString(buffer, 3)
    ELSE IF targetSerialType = 4 THEN readIntToString(buffer, 4)
    ELSE IF targetSerialType = 5 THEN readIntToString(buffer, 6)
    ELSE IF targetSerialType = 6 THEN readIntToString(buffer, 8)
    ELSE IF targetSerialType = 7
        THEN IF Len(buffer) < 8 THEN Thrown
             ELSE Returned(DoubleToString(Subarray(buffer, 0, 8)))
    ELSE IF targetSerialType = 8 \/ targetSerialType = 9 THEN Returned(<<48>>)
    ELSE Returned(NumberToString(id))

\* A size table that gives the integer types 5 and 6 five and six bytes:
\* what C6_SerialTypeSizeTable must tell apart from getSerialTypeSize.
getSerialTypeSizeDense(serialType) ==
    IF serialType \in 1..6 THEN serialType
    ELSE IF serialType = 7 THEN 8
    ELSE IF serialType >= 12 THEN (serialType - 12 - (serialType % 2)) \div 2
    ELSE 0

getSerialTypeSize(serialType) ==
    IF serialType = 0 THEN 0
    ELSE IF serialType = 1 THEN 1
    ELSE IF serialType = 2 THEN 2
    ELSE IF serialType = 3 THEN 3
    ELSE IF serialType = 4 THEN 4
    ELSE IF serialType = 5 THEN 6
    ELSE IF serialType = 6 THEN 8
    ELSE IF serialType = 7 THEN 8
    ELSE IF serialType = 8 \/ serialType = 9 THEN 0
    ELSE IF serialType >= 12 /\ serialType % 2 = 0 THEN (serialType - 12) \div 2
    ELSE IF serialType >= 13 /\ serialType % 2 = 1 THEN (serialType - 13) \div 2
    ELSE 0

---------------------------------------------------------------------------
(* parseCellPayload, parseTableLeafCell                                    *)

\* rowId when parseCellPayload is called without one.
DefaultRowId == -99999

\* The while loop over the record header: the serial types read and the
\* offset reached once headerRemainingBytes is no longer positive.
RECURSIVE headerLoop(_, _, _, _)
headerLoop(buffer, offset, headerRemainingBytes, serialTypes) ==
    IF headerRemainingBytes > 0
    THEN LET v == readVarint(SubarrayFrom(buffer, offset))
         IN  headerLoop(buffer, offset + v.nextOffset,
                        headerRemainingBytes - v.nextOffset,
                        Append(serialTypes, v.value))
    ELSE [serialTypes |-> serialTypes, offset |-> offset,
          headerRemainingBytes |-> headerRemainingBytes]

\* The for loop over the serial types: data so far, or the first throw.
RECURSIVE columnLoop(_, _, _, _, _, _)
columnLoop(buffer, offset, serialTypes, i, rowId, data) ==
    IF i > Len(serialTypes) THEN Returned(data)
    ELSE LET columnSize == getSerialTypeSize(serialTypes[i])
             v == parseSerialTypeValue(
                      Subarray(buffer, offset, offset + columnSize),
                      serialTypes[i], rowId)
         IN  IF v.throws THEN Thrown
             ELSE columnLoop(buffer, offset + columnSize, serialTypes, i + 1,
                             rowId, Append(data, v.value))

parseCellPayload(buffer, offset, rowId) ==
    LET h  == readVarint(SubarrayFrom(buffer, offset))
        hl == headerLoop(buffer, offset + h.nextOffset,
                         h.value - h.nextOffset, <<>>)
    IN  columnLoop(buffer, hl.offset, hl.serialTypes, 1, rowId, <<>>)

parseTableLeafCell(buffer) ==
    LET payloadSize == readVarint(SubarrayFrom(buffer, 0))
        rowId       == readVarint(SubarrayFrom(buffer, payloadSize.nextOffset))
    IN  parseCellPayload(buffer, payloadSize.nextOffset + rowId.nextOffset,
                         rowId.value)

---------------------------------------------------------------------------
(* DatabaseFileParser                                                      *)

maxByteSize == 100

\* The index PageCellData.schemaTableName of the enum PageCellData.
schemaTableName == 2

\* The page type codes of B_TREE_PAGE_TYPE.
interiorIndexPage == 2
interiorTablePage == 5
leafIndexPage == 10
leafTablePage == 13

\* Buffer.alloc(n), new Uint8Array(n): n zero bytes.
Zeros(n) == [i \in 1..n |-> 0]

\* The object {} a field is cast from in the constructor.
EmptyObject == [k \in {} |-> 0]

\* getBufferFromOffset: a zero-filled array of bufferSize bytes over which
\* fileHandle.read copies the bytes the file holds from offset on; the bytes
\* past the end of the file stay zero and no error is raised.
getBufferFromOffset(f, bufferSize, offset) ==
    [i \in 1..bufferSize |-> IF offset + i <= Len(f) THEN f[offset + i] ELSE 0]

\* DataView.getUint32, big-endian.
getUint32(view, offset) ==
    ((view[offset + 1] * 256 + view[offset + 2]) * 256 + view[offset + 3]) * 256
        + view[offset + 4]

parseDatabaseFileHeader(f) ==
    LET b == getBufferFromOffset(f, maxByteSize, 0) IN
    [ k \in { "header string", "database page size", "file format write version",
              "file format read version", "reserved space at end of each page",
              "maximum embedded payload fraction",
              "minimum embedded payload fraction", "leaf payload fraction",
              "file change counter", "number of pages",
              "first freeList trunk page", "total freeList pages",
              "schema cookie", "schema format number",
              "default page cache size", "largest root b-tree page number",
              "database text encoding", "user version",
              "incremental vacuum mode", "application ID",
              "reserved for expansion", "version valid for number",
              "sqlite version number" } |->
        CASE k = "header string" -> Subarray(b, 0, 16)
          [] k = "database page size" -> getUint16(b, 16)
          [] k = "file format write version" -> getUint8(b, 18)
          [] k = "file format read version" -> getUint8(b, 19)
          [] k = "reserved space at end of each page" -> getUint8(b, 20)
          [] k = "maximum embedded payload fraction" -> getUint8(b, 21)
          [] k = "minimum embedded payload fraction" -> getUint8(b, 22)
          [] k = "leaf payload fraction" -> getUint8(b, 23)
          [] k = "file change counter" -> getUint32(b, 24)
          [] k = "number of pages" -> getUint32(b, 28)
          [] k = "first freeList trunk page" -> getUint32(b, 32)
          [] k = "total freeList pages" -> getUint32(b, 36)
          [] k = "schema cookie" -> getUint32(b, 40)
          [] k = "schema format number" -> getUint32(b, 44)
          [] k = "default page cache size" -> getUint32(b, 48)
          [] k = "largest root b-tree page number" -> getUint32(b, 52)
          [] k = "database text encoding" -> getUint32(b, 56)
          [] k = "user version" -> getUint32(b, 60)
          [] k = "incremental vacuum mode" -> getUint32(b, 64)
          [] k = "application ID" -> getUint32(b, 68)
          [] k = "reserved for expansion" -> Subarray(b, 72, 92)
          [] k = "version valid for number" -> getUint32(b, 92)
          [] k = "sqlite version number" -> getUint32(b, 96) ]

\* The header size parsePageHeader settles on.
pagerHeaderSize(pageHeaderData) ==
    IF getUint8(pageHeaderData, 0) = leafTablePage
       \/ getInt8(pageHeaderData, 8) = leafIndexPage
    THEN 8 ELSE 12

\* The "right-most pointer" field parsePageHeader returns.
rightMostPointer(pageHeaderData) == getUint32(pageHeaderData, 8) - 1

parsePageHeader(f, offset) ==
    LET pageHeaderData == getBufferFromOffset(f, 12, offset) IN
    [ k \in { "number of tables", "b-tree page type", "start of first freeBlock",
              "number of cells", "start of cell content area",
              "number of fragmented free bytes", "right-most pointer",
              "headerSize" } |->
        CASE k = "number of tables" -> getUint16(pageHeaderData, 3)
          [] k = "b-tree page type" -> getUint8(pageHeaderData, 0)
          [] k = "start of first freeBlock" -> getUint16(pageHeaderData, 1)
          [] k = "number of cells" -> getUint16(pageHeaderData, 3)
          [] k = "start of cell content area" -> getUint16(pageHeaderData, 5)
          [] k = "number of fragmented free bytes" -> getUint8(pageHeaderData, 7)
          [] k = "right-most pointer" -> rightMostPointer(pageHeaderData)
          [] k = "headerSize" -> pagerHeaderSize(pageHeaderData) ]

\* The for loop of getCellPointerArray: the pointers, or the RangeError it
\* throws for an entry that does not fit the pointer buffer.
RECURSIVE pointerLoop(_, _, _, _)
pointerLoop(pointerBuffer, cellCount, c, pointerArray) ==
    IF c >= cellCount THEN Returned(pointerArray)
    ELSE IF c * 2 + 2 <= Len(pointerBuffer)
         THEN pointerLoop(pointerBuffer, cellCount, c + 1,
                          Append(pointerArray, getUint16(pointerBuffer, c * 2)))
         ELSE Thrown

getCellPointerArray(f, offset) ==
    LET h == parsePageHeader(f, offset)
        pointerBuffer == getBufferFromOffset(f, h["number of cells"] * 2,
                                             offset + h["headerSize"])
    IN  pointerLoop(pointerBuffer, h["number of cells"], 0, <<>>)

\* The element at the index of PageCellData.schemaName instead: what
\* C1_SchemaTableNames must tell apart from tableNameOf.
tableNameOfSchemaName(columns) ==
    IF 2 <= Len(columns) THEN columns[2] ELSE Undefined

\* parseTableLeafCell(...)[PageCellData.schemaTableName]: the element at that
\* index, undefined when the array is shorter.
tableNameOf(columns) ==
    IF schemaTableName + 1 <= Len(columns) THEN columns[schemaTableName + 1]
    ELSE Undefined

\* getTableNames: one entry per cell pointer, or the first throw.
RECURSIVE getTableNamesLoop(_, _, _, _)
getTableNamesLoop(buffer, pointers, i, tableNames) ==
    IF i > Len(pointers) THEN Returned(tableNames)
    ELSE LET cell == parseTableLeafCell(SubarrayFrom(buffer, pointers[i]))
         IN  IF cell.throws THEN Thrown
             ELSE getTableNamesLoop(buffer, pointers, i + 1,
                                    Append(tableNames, tableNameOf(cell.value)))

getTableNames(buffer, pointers) == getTableNamesLoop(buffer, pointers, 1, <<>>)

getPageSize(header) == header["database page size"]

getPageCount(header) == header["number of pages"]

getNumberOfTables(pageHeader) == pageHeader["number of tables"]

---------------------------------------------------------------------------
(* The database files parse() is run on                                    *)

MaxCells == 2
MaxPageCount == 2

PageSizes == {1024, 2048}

\* "SQLite format 3\000"
Magic == <<83, 81, 76, 105, 116, 101, 32, 102, 111, 114, 109, 97, 116, 32, 51, 0>>

\* The 100-byte database header of a file of pageCount pages of pageSize
\* bytes, as SQLite writes it (UTF-8, schema format 4).
HeaderBytes(pageSize, pageCount) ==
    [i \in 1..100 |->
        IF i <= 16 THEN Magic[i]
        ELSE CASE i = 17 -> pageSize \div 256
               [] i = 18 -> pageSize % 256
               [] i \in {19, 20} -> 1
               [] i = 22 -> 64
               [] i \in {23, 24} -> 32
               [] i = 28 -> 1
               [] i = 31 -> pageCount \div 256
               [] i = 32 -> pageCount % 256
               [] i = 48 -> 4
               [] i = 60 -> 1
               [] i = 96 -> 1
               [] i = 98 -> 46
               [] i = 99 -> 118
               [] i = 100 -> 201
               [] OTHER -> 0]

\* A TEXT column holding the ASCII bytes s: its serial type and its bytes.
Text(s) == [type |-> 13 + 2 * Len(s), bytes |-> s]

\* An 8-bit integer column.
Int8(n) == [type |-> 1, bytes |-> <<n>>]

RECURSIVE ColumnTypes(_)
ColumnTypes(cols) ==
    IF cols = <<>> THEN <<>> ELSE <<Head(cols).type>> \o ColumnTypes(Tail(cols))

RECURSIVE ColumnBytes(_)
ColumnBytes(cols) ==
    IF cols = <<>> THEN <<>> ELSE Head(cols).bytes \o ColumnBytes(Tail(cols))

\* The canonical varint of v < 2^14: one byte below 128, else two.
SmallVarint(v) == IF v < 128 THEN <<v>> ELSE <<128 + (v \div 128), v % 128>>

\* A table-leaf cell: payload size, row id, then the record of the columns
\* (every column's serial type below 128, so one byte each).
Cell(rowId, cols) ==
    LET record == <<1 + Len(cols)>> \o ColumnTypes(cols) \o ColumnBytes(cols)
    IN  SmallVarint(Len(record)) \o <<rowId>> \o record

\* "t1", "t2", "t3", "i1"
NameT1 == <<116, 49>>
NameT2 == <<116, 50>>
NameT3 == <<116, 51>>
NameI1 == <<105, 49>>

WordTable == <<116, 97, 98, 108, 101>>
WordIndex == <<105, 110, 100, 101, 120>>

\* "CREATE TABLE t(a)"
SqlText == <<67, 82, 69, 65, 84, 69, 32, 84, 65, 66, 76, 69, 32, 116, 40, 97, 41>>

Filler57 == [i \in 1..57 |-> 120]

\* The cells a root page is filled from.  oob marks an entry of the cell
\* pointer array that points past the page instead of at a cell.
CellKinds ==
    { [oob |-> FALSE, bytes |-> Cell(1, <<Text(NameT1)>>)],
      [oob |-> FALSE, bytes |-> Cell(2, <<Text(NameT2)>>)],
      [oob |-> FALSE,
       bytes |-> Cell(2, <<Text(WordIndex), Text(NameI1),
                           Text(NameT2), Int8(3), Text(SqlText)>>)],
      [oob |-> FALSE,
       bytes |-> Cell(3, <<Text(WordTable), Text(NameT3),
                           Text(NameT3), Int8(4), Text(Filler57),
                           Text(Filler57)>>)],
      [oob |-> TRUE, bytes |-> <<>>] }

CellLists == UNION {[1..n -> CellKinds] : n \in 0..MaxCells}

\* Cell i starts where cell i-1 ends, the first at the end of the page
\* (SQLite fills the cell content area from the end of the page).
RECURSIVE CellStart(_, _, _)
CellStart(pageSize, cells, i) ==
    (IF i = 1 THEN pageSize ELSE CellStart(pageSize, cells, i - 1))
        - Len(cells[i].bytes)

\* The entry of the cell pointer array for cell i.
CellPointer(pageSize, cells, i) ==
    IF cells[i].oob THEN pageSize + 2 * i ELSE CellStart(pageSize, cells, i)

\* A file whose page 1 is a leaf-table b-tree page holding the cells.
LeafTableFile(pageSize, pageCount, cells) ==
    LET n == Len(cells)
        header == HeaderBytes(pageSize, pageCount)
        contentStart == IF n = 0 THEN pageSize ELSE CellStart(pageSize, cells, n)
    IN  [i \in 1..(pageSize * pageCount) |->
            IF i <= 100 THEN header[i]
            ELSE IF i = 101 THEN leafTablePage
            ELSE IF i = 104 THEN n \div 256
            ELSE IF i = 105 THEN n % 256
            ELSE IF i = 106 THEN contentStart \div 256
            ELSE IF i = 107 THEN contentStart % 256
            ELSE IF i > 108 /\ i <= 108 + 2 * n
                 THEN LET c == (i - 107) \div 2
                          ptr == CellPointer(pageSize, cells, c)
                      IN  IF (i - 108) % 2 = 1 THEN ptr \div 256 ELSE ptr % 256
            ELSE IF i > contentStart /\ i <= pageSize
                 THEN LET c == CHOOSE k \in 1..n :
                                 /\ CellStart(pageSize, cells, k) < i
                                 /\ i <= CellStart(pageSize, cells, k)
                                          + Len(cells[k].bytes)
                      IN  cells[c].bytes[i - CellStart(pageSize, cells, c)]
            ELSE 0]

LeafTableFiles ==
    {LeafTableFile(p, c, cells) :
        p \in PageSizes, c \in 1..MaxPageCount, cells \in CellLists}

\* Files whose page 1 starts with the twelve given bytes and is otherwise
\* empty: every page type, without cells, over several values of the bytes
\* at offsets 8 to 11 of the page.
PageTypes == {interiorIndexPage, interiorTablePage, leafIndexPage, leafTablePage}

Tails == {<<0, 0, 0, 0>>, <<0, 0, 0, 2>>, <<10, 0, 0, 1>>, <<3, 240, 3, 224>>}

RawHeaderFile(pageSize, pageCount, type, tail) ==
    LET header == HeaderBytes(pageSize, pageCount)
        page == <<type, 0, 0, 0, 0, pageSize \div 256, pageSize % 256, 0>> \o tail
    IN  [i \in 1..(pageSize * pageCount) |->
            IF i <= 100 THEN header[i]
            ELSE IF i <= 112 THEN page[i - 100]
            ELSE 0]

RawHeaderFiles ==
    {RawHeaderFile(1024, c, t, tail) :
        c \in 1..MaxPageCount, t \in PageTypes, tail \in Tails}

\* Files cut short inside the database header.
TruncatedFiles ==
    {Subarray(f, 0, n) :
        f \in {LeafTableFile(1024, c, cells) :
                   c \in 1..MaxPageCount, cells \in [1..1 -> CellKinds]},
        n \in {0, 17, 18, 30, 99}}

Files == LeafTableFiles \cup RawHeaderFiles \cup TruncatedFiles

---------------------------------------------------------------------------
(* parse(), one step per await                                             *)

Pending == [state |-> "pending"]
Rejected == [state |-> "rejected"]
Fulfilled(v) == [state |-> "fulfilled", value |-> v]

NoCall == [fn |-> "none"]

\* The state the constructor leaves, over the file f.
Constructed(f) ==
    /\ file = f
    /\ pc = "parseDatabaseFileHeader"
    /\ databaseFileHeader = EmptyObject
    /\ databasePageHeader = EmptyObject
    /\ cellPointersArray = <<>>
    /\ pageBuffer = Zeros(maxByteSize)
    /\ result = Pending

Init ==
    /\ \E f \in Files : Constructed(f)
    /\ call = NoCall
    /\ ret = NoCall

ParseDatabaseFileHeader ==
    /\ pc = "parseDatabaseFileHeader"
    /\ databaseFileHeader' = parseDatabaseFileHeader(file)
    /\ pc' = "parsePageHeader"
    /\ UNCHANGED <<file, databasePageHeader, cellPointersArray, pageBuffer,
                   result, call, ret>>

ParsePageHeader ==
    /\ pc = "parsePageHeader"
    /\ databasePageHeader' = parsePageHeader(file, maxByteSize)
    /\ pc' = "getCellPointerArray"
    /\ UNCHANGED <<file, databaseFileHeader, cellPointersArray, pageBuffer,
                   result, call, ret>>

GetCellPointerArray ==
    /\ pc = "getCellPointerArray"
    /\ LET pointers == getCellPointerArray(file, maxByteSize) IN
       IF pointers.throws
       THEN /\ result' = Rejected
            /\ pc' = "done"
            /\ UNCHANGED cellPointersArray
       ELSE /\ cellPointersArray' = pointers.value
            /\ pc' = "getBufferFromOffset"
            /\ UNCHANGED result
    /\ UNCHANGED <<file, databaseFileHeader, databasePageHeader, pageBuffer,
                   call, ret>>

ReadPageBuffer ==
    /\ pc = "getBufferFromOffset"
    /\ pageBuffer' = getBufferFromOffset(file, getPageSize(databaseFileHeader), 0)
    /\ pc' = "return"
    /\ UNCHANGED <<file, databaseFileHeader, databasePageHeader,
                   cellPointersArray, result, call, ret>>

Return ==
    /\ pc = "return"
    /\ LET tableNames == getTableNames(pageBuffer, cellPointersArray) IN
       result' = IF tableNames.throws THEN Rejected
                 ELSE Fulfilled([pageSize |-> getPageSize(databaseFileHeader),
                                 pageCount |-> getPageCount(databaseFileHeader),
                                 numberOfTables |-> getNumberOfTables(databasePageHeader),
                                 tableNames |-> tableNames.value])
    /\ pc' = "done"
    /\ UNCHANGED <<file, databaseFileHeader, databasePageHeader,
                   cellPointersArray, pageBuffer, call, ret>>

Next ==
    \/ ParseDatabaseFileHeader
    \/ ParsePageHeader
    \/ GetCellPointerArray
    \/ ReadPageBuffer
    \/ Return

Spec == Init /\ [][Next]_vars

---------------------------------------------------------------------------
(* The helpers called on their own, as helpers.test.ts calls them          *)

MaxVarintValue == 300
MaxSerialType == 100
MaxColumns == 2

\* The canonical SQLite varint of v in [0, 2^28): seven value bits per byte,
\* most significant group first, the high bit set on every byte but the last.
RECURSIVE EncodeHigh(_)
EncodeHigh(u) ==
    IF u < 128 THEN <<128 + u>>
    ELSE EncodeHigh(u \div 128) \o <<128 + (u % 128)>>

EncodeVarint(v) ==
    IF v < 128 THEN <<v>> ELSE EncodeHigh(v \div 128) \o <<v % 128>>

VarintValues ==
    (0..MaxVarintValue)
        \cup {2^k + d : k \in {14, 21}, d \in {-1, 0, 1}}
        \cup {2^28 - 1}

\* Eight bytes, the first seven with the high bit set, the eighth without.
EightByteVarints ==
    {[i \in 1..8 |-> IF i = 8 THEN last ELSE 128 + low[i]] :
        low \in [1..7 -> {0, 1}], last \in {0, 1, 127}}

\* An empty buffer, unfinished varints, a nine-byte varint.
OddVarints ==
    {<<>>, <<128>>, <<255, 255>>, [i \in 1..9 |-> 255], [i \in 1..10 |-> 129]}

VarintBuffers ==
    {EncodeVarint(v) : v \in VarintValues} \cup EightByteVarints \cup OddVarints

SerialTypes == (-2)..MaxSerialType

\* The columns records are built from: 8-bit integers, a NULL, a short TEXT,
\* and a BLOB and a TEXT long enough for a serial type of two bytes.
ColumnKinds ==
    { Int8(1), Int8(254), [type |-> 0, bytes |-> <<>>], Text(NameT1),
      [type |-> 128, bytes |-> [i \in 1..58 |-> i]],
      Text([i \in 1..60 |-> 97]) }

ColumnLists == UNION {[1..n -> ColumnKinds] : n \in 0..MaxColumns}

RECURSIVE EncodeTypes(_)
EncodeTypes(cols) ==
    IF cols = <<>> THEN <<>>
    ELSE EncodeVarint(Head(cols).type) \o EncodeTypes(Tail(cols))

\* The record of the columns: the header size (which counts itself), the
\* serial types, the column bytes.
RecordBytes(cols) ==
    <<1 + Len(EncodeTypes(cols))>> \o EncodeTypes(cols) \o ColumnBytes(cols)

\* What comes before a record in its buffer (a payload size and a row id, or
\* nothing) and after it.
Prefixes == {<<>>, <<4, 1>>}
Suffixes == {<<>>, <<9, 9>>}

\* Records whose header size ends inside the last serial type varint.
OvershootRecords ==
    {<<2, 129, 0, 7>>, <<2, 129, 0>>, <<3, 1, 129, 1, 5, 6>>, <<2, 129, 25, 65, 66>>}

RecordBuffers ==
    {[buffer |-> pre \o RecordBytes(cols) \o suf, offset |-> Len(pre)] :
        pre \in Prefixes, cols \in ColumnLists, suf \in Suffixes}
    \cup {[buffer |-> b, offset |-> 0] : b \in OvershootRecords}

\* The helpers are pure: every call is made once, from the initial state, and
\* what it returns depends on its arguments alone.
InitHelpers ==
    /\ Constructed(<<>>)
    /\ call = NoCall
    /\ ret = NoCall

CallReadVarint ==
    /\ call = NoCall
    /\ \E buffer \in VarintBuffers :
        /\ call' = [fn |-> "readVarint", buffer |-> buffer]
        /\ ret' = [fn |-> "readVarint", returned |-> readVarint(buffer)]
    /\ UNCHANGED parserVars

CallGetSerialTypeSize ==
    /\ call = NoCall
    /\ \E serialType \in SerialTypes :
        /\ call' = [fn |-> "getSerialTypeSize", serialType |-> serialType]
        /\ ret' = [fn |-> "getSerialTypeSize",
                   returned |-> getSerialTypeSize(serialType)]
    /\ UNCHANGED parserVars

CallParseCellPayload ==
    /\ call = NoCall
    /\ \E input \in RecordBuffers :
        /\ call' = [fn |-> "parseCellPayload", buffer |-> input.buffer,
                    offset |-> input.offset, rowId |-> DefaultRowId]
        /\ ret' = [fn |-> "parseCellPayload",
                   returned |-> parseCellPayload(input.buffer, input.offset,
                                                 DefaultRowId)]
    /\ UNCHANGED parserVars

NextHelpers ==
    \/ CallReadVarint
    \/ CallGetSerialTypeSize
    \/ CallParseCellPayload

SpecHelpers == InitHelpers /\ [][NextHelpers]_vars

---------------------------------------------------------------------------
(* Claims about the helpers, checked under SpecHelpers                     *)

IsEncodingOf(buffer, v) == buffer = EncodeVarint(v)

\* C2: readVarint applied to the canonical varint of a value v in [0, 2^28)
\* returns value = v and nextOffset = the length of that encoding.
C2_VarintRoundTrip ==
    call.fn = "readVarint" =>
        \A v \in VarintValues :
            IsEncodingOf(call.buffer, v) =>
                ret.returned = [value |-> v, nextOffset |-> Len(EncodeVarint(v))]

\* The size the serial type table gives the code n >= 0.
SizeTable(n) ==
    CASE n = 0 -> 0
      [] n \in 1..9 -> <<1, 2, 3, 4, 6, 8, 8, 0, 0>>[n]
      [] n \in {10, 11} -> 0
      [] n >= 12 /\ n % 2 = 0 -> (n - 12) \div 2
      [] n >= 13 /\ n % 2 = 1 -> (n - 13) \div 2

\* C6: getSerialTypeSize returns the size of the serial type table for
\* every code: 0 for 0, 1,2,3,4,6,8,8,0,0 for 1..9, 0 for 10 and 11,
\* (n-12)/2 for even n >= 12 and (n-13)/2 for odd n >= 13.
C6_SerialTypeSizeTable ==
    (call.fn = "getSerialTypeSize" /\ call.serialType >= 0) =>
        ret.returned = SizeTable(call.serialType)

\* getSerialTypeSize(100) was called and returned 44.
C6_Witness ==
    call.fn = "getSerialTypeSize" /\ call.serialType = 100 /\ ret.returned = 44

\* The sum of the sizes of the first n serial types.
RECURSIVE SumSizes(_, _)
SumSizes(types, n) ==
    IF n = 0 THEN 0 ELSE SumSizes(types, n - 1) + getSerialTypeSize(types[n])

\* One string per serial type: column i decoded from the bytes of its size
\* that start at the end of the header plus the sizes of the columns before.
ExpectedColumns(buffer, headerEnd, types, rowId) ==
    [i \in 1..Len(types) |->
        parseSerialTypeValue(
            Subarray(buffer, headerEnd + SumSizes(types, i - 1),
                     headerEnd + SumSizes(types, i)),
            types[i], rowId).value]

\* C7: for every well-formed record (header size, serial types filling the
\* rest of the header, column bytes) parseCellPayload returns one string per
\* serial type, in header order, each decoded from the bytes of its column.
C7_PayloadColumns ==
    call.fn = "parseCellPayload" =>
        \A pre \in Prefixes, cols \in ColumnLists, suf \in Suffixes :
            (/\ call.buffer = pre \o RecordBytes(cols) \o suf
             /\ call.offset = Len(pre))
            => ret.returned = Returned(ExpectedColumns(
                         call.buffer,
                         Len(pre) + 1 + Len(EncodeTypes(cols)),
                         ColumnTypes(cols), call.rowId))

\* The bits of the integer that holds the low seven bits of byte k of the
\* buffer at bits 7k .. 7k+6.
FullWidthBits(buffer) ==
    UNION {{7 * (k - 1) + i : i \in Bits32(buffer[k] % 128)} :
              k \in 1..Len(buffer)}

\* The number v is the non-negative integer whose bits are S.
HasBits(v, S) == v >= 0 /\ Bits32(v) = S

\* C8: readVarint on an eight-byte varint consumes eight bytes and returns
\* the full-width integer of its 56 value bits, without wrapping at 32 bits
\* (2^49 + 1 for 81 80 80 80 80 80 80 01).
C8_EightByteVarint ==
    (call.fn = "readVarint" /\ call.buffer \in EightByteVarints) =>
        /\ ret.returned.nextOffset = 8
        /\ HasBits(ret.returned.value, FullWidthBits(call.buffer))

\* The header loop of parseCellPayload(buffer, offset) read a serial type
\* that took headerRemainingBytes below zero.
Overshoots(buffer, offset) ==
    LET h  == readVarint(SubarrayFrom(buffer, offset))
        hl == headerLoop(buffer, offset + h.nextOffset,
                         h.value - h.nextOffset, <<>>)
    IN  Len(hl.serialTypes) > 0 /\ hl.headerRemainingBytes < 0

\* C10: when the last serial type varint of the record header consumes more
\* bytes than the declared header size leaves, parseCellPayload ends in an
\* error instead of returning a list of column values.
C10_OvershootIsAnError ==
    (call.fn = "parseCellPayload" /\ Overshoots(call.buffer, call.offset)) =>
        ret.returned.throws

---------------------------------------------------------------------------
(* Claims about parse(), checked under Spec                                *)

\* The byte of the file at offset o, read as the file format lays it out;
\* zero past the end of the file.
ByteAt(o) == IF o >= 0 /\ o < Len(file) THEN file[o + 1] ELSE 0

\* The page size and the page count the database header declares.
DeclaredPageSize == ByteAt(16) * 256 + ByteAt(17)

DeclaredPageCount ==
    ((ByteAt(28) * 256 + ByteAt(29)) * 256 + ByteAt(30)) * 256 + ByteAt(31)

\* The type byte and the cell count of the root page header at offset 100.
RootPageType == ByteAt(maxByteSize)

RootCellCount == ByteAt(maxByteSize + 3) * 256 + ByteAt(maxByteSize + 4)

\* Entry i (from 1) of the cell pointer array that follows the eight-byte
\* header of a leaf page.
RootCellPointer(i) ==
    ByteAt(maxByteSize + 8 + 2 * (i - 1)) * 256
        + ByteAt(maxByteSize + 8 + 2 * (i - 1) + 1)

\* The number of bytes of the varint at offset o: up to the first byte
\* without the high bit, nine at most.
VarintLength(o) ==
    CHOOSE k \in 1..9 :
        /\ k = 9 \/ ByteAt(o + k - 1) < 128
        /\ \A j \in 1..(k - 1) : ByteAt(o + j - 1) >= 128

\* Where the record of cell i starts: after the payload size and the row id.
RecordStart(i) ==
    LET p == RootCellPointer(i)
        a == VarintLength(p)
    IN  p + a + VarintLength(p + a)

\* The header size of the record of cell i, when it is a one-byte varint.
RecordHeaderSize(i) == ByteAt(RecordStart(i))

\* The serial type of column c (from 1) of the record of cell i, when every
\* serial type before it is a one-byte varint.
RecordColumnType(i, c) == ByteAt(RecordStart(i) + c)

\* Where column c of the record of cell i starts: after the header and the
\* columns before it.
RECURSIVE RecordColumnStart(_, _)
RecordColumnStart(i, c) ==
    IF c = 1 THEN RecordStart(i) + RecordHeaderSize(i)
    ELSE RecordColumnStart(i, c - 1) + SizeTable(RecordColumnType(i, c - 1))

\* The bytes of column c of the record of cell i.
RecordColumnBytes(i, c) ==
    [k \in 1..SizeTable(RecordColumnType(i, c)) |->
        ByteAt(RecordColumnStart(i, c) + k - 1)]

\* Cell i is a cell inside the page whose record has a header of one-byte
\* varints (the header size and every serial type below 128) and at least
\* one column, and ends inside the page.
WellFormedCell(i) ==
    /\ RootCellPointer(i) < DeclaredPageSize
    /\ RecordHeaderSize(i) \in 2..127
    /\ \A c \in 1..(RecordHeaderSize(i) - 1) : RecordColumnType(i, c) < 128
    /\ RecordColumnStart(i, RecordHeaderSize(i)) <= DeclaredPageSize

\* Column c of the record of cell i is an ASCII TEXT column.
TextColumn(i, c) ==
    /\ c < RecordHeaderSize(i)
    /\ RecordColumnType(i, c) >= 13
    /\ RecordColumnType(i, c) % 2 = 1
    /\ \A k \in 1..Len(RecordColumnBytes(i, c)) : RecordColumnBytes(i, c)[k] < 128

\* The file holds its first page, and its root page is a leaf-table page.
LeafTableRoot ==
    /\ Len(file) >= DeclaredPageSize
    /\ DeclaredPageSize >= maxByteSize + 8 + 2 * RootCellCount
    /\ RootPageType = leafTablePage

\* parse() returned the declared page size and page count, the cell count
\* of the root page, and the texts of column c of the cells in pointer order.
ParseReturnsColumn(c) ==
    /\ result.state = "fulfilled"
    /\ result.value.pageSize = DeclaredPageSize
    /\ result.value.pageCount = DeclaredPageCount
    /\ result.value.numberOfTables = RootCellCount
    /\ result.value.tableNames
           = [i \in 1..RootCellCount |-> RecordColumnBytes(i, c)]

\* Every cell of the root page is a record with a single TEXT column.
SingleTextColumnCells ==
    \A i \in 1..RootCellCount :
        WellFormedCell(i) /\ RecordHeaderSize(i) = 2 /\ TextColumn(i, 1)

SchemaRowCells ==
    \A i \in 1..RootCellCount :
        WellFormedCell(i) /\ TextColumn(i, schemaTableName + 1)

C3_HeaderSizeFromTypeByte ==
    pc \notin {"parseDatabaseFileHeader", "parsePageHeader"} =>
        /\ RootPageType \in {leafTablePage, leafIndexPage}
               => databasePageHeader["headerSize"] = 8
        /\ RootPageType \in {interiorIndexPage, interiorTablePage}
               => databasePageHeader["headerSize"] = 12

\* C4: over a file shorter than the 100-byte database header, parse() ends
\* in an error and returns no result.
C4_TruncatedHeaderRejected ==
    (Len(file) < maxByteSize /\ pc = "done") => result.state = "rejected"

\* C5: when an entry of the cell pointer array is an offset at or past the
\* end of the page buffer, parse() ends in an error and returns no
\* tableNames list.
C5_PointerOutOfBoundsRejected ==
    (/\ pc = "done"
     /\ \E i \in 1..Len(cellPointersArray) :
            cellPointersArray[i] >= Len(pageBuffer))
        => result.state = "rejected"

\* The right-most pointer v of a page header is a page number, not null.
Present(v) == v \in Int

\* C9: the right-most pointer of the page header parsePageHeader returns is
\* present exactly when the page type is an interior type (2 or 5).
C9_RightMostPointerIffInterior ==
    pc \notin {"parseDatabaseFileHeader", "parsePageHeader"} =>
        (Present(databasePageHeader["right-most pointer"])
            <=> RootPageType \in {interiorIndexPage, interiorTablePage})

---------------------------------------------------------------------------
(* parseCellPayload, one step per loop iteration                           *)

MaxHeaderSize == 20

\* Buffers that are not records: empty, a header size with nothing behind
\* it, unfinished varints, a nine-byte varint (read as -1), an integer
\* column without its byte, a serial type that overshoots the header.
OddBuffers ==
    { <<>>, <<MaxHeaderSize>>, <<128>>, <<3, 129>>, <<2, 1>>, <<2, 129, 0, 7>>,
      [k \in 1..9 |-> 255] }

\* Records of up to MaxColumns columns: 8-bit integers, NULLs, short texts.
PayloadRecords ==
    {RecordBytes(cols) :
        cols \in UNION {[1..n -> {Int8(1), [type |-> 0, bytes |-> <<>>],
                                  Text(NameT1)}] : n \in 0..MaxColumns}}

\* The calls made: at the start of each buffer, inside it, at its end and
\* past its end.
PayloadInputs ==
    UNION {{[buffer |-> b, offset |-> o] : o \in {0, 1, Len(b), Len(b) + 1}} :
              b \in OddBuffers \cup PayloadRecords}

\* The call is parseCellPayload, its locals in call, at the position at.
InPayload(at) == call.fn = "parseCellPayload" /\ call.at = at

InitPayload ==
    /\ Constructed(<<>>)
    /\ call = NoCall
    /\ ret = NoCall

\* The call, down to the while loop: the header size is read and offset
\* moved past it.
EnterParseCellPayload ==
    /\ call = NoCall
    /\ \E input \in PayloadInputs :
        LET h == readVarint(SubarrayFrom(input.buffer, input.offset)) IN
        call' = [fn |-> "parseCellPayload", at |-> "while",
                 buffer |-> input.buffer, rowId |-> DefaultRowId,
                 headerSize |-> h.value, headerSizeBytes |-> h.nextOffset,
                 offset |-> input.offset + h.nextOffset,
                 serialTypes |-> <<>>,
                 headerRemainingBytes |-> h.value - h.nextOffset,
                 data |-> <<>>, i |-> 0]
    /\ UNCHANGED <<parserVars, ret>>

\* One iteration of while (headerRemainingBytes > 0).
HeaderStep ==
    /\ InPayload("while")
    /\ call.headerRemainingBytes > 0
    /\ LET v == readVarint(SubarrayFrom(call.buffer, call.offset)) IN
       call' = [call EXCEPT
                   !.serialTypes = Append(@, v.value),
                   !.offset = @ + v.nextOffset,
                   !.headerRemainingBytes = @ - v.nextOffset]
    /\ UNCHANGED <<parserVars, ret>>

\* The while loop ends and the for loop starts.
LeaveHeaderLoop ==
    /\ InPayload("while")
    /\ call.headerRemainingBytes <= 0
    /\ call' = [call EXCEPT !.at = "for", !.data = <<>>, !.i = 0]
    /\ UNCHANGED <<parserVars, ret>>

\* The size of the column the for loop is at, and what parseSerialTypeValue
\* makes of its bytes.
ColumnSize == getSerialTypeSize(call.serialTypes[call.i + 1])

ColumnValue ==
    parseSerialTypeValue(
        Subarray(call.buffer, call.offset, call.offset + ColumnSize),
        call.serialTypes[call.i + 1], call.rowId)

\* One iteration of the for loop.
ColumnStep ==
    /\ InPayload("for")
    /\ call.i < Len(call.serialTypes)
    /\ ~ColumnValue.throws
    /\ call' = [call EXCEPT !.data = Append(@, ColumnValue.value),
                            !.offset = @ + ColumnSize,
                            !.i = @ + 1]
    /\ UNCHANGED <<parserVars, ret>>

\* An iteration of the for loop in which parseSerialTypeValue throws: the
\* call ends.
ColumnThrows ==
    /\ InPayload("for")
    /\ call.i < Len(call.serialTypes)
    /\ ColumnValue.throws
    /\ call' = [call EXCEPT !.at = "done"]
    /\ ret' = [fn |-> "parseCellPayload", returned |-> Thrown]
    /\ UNCHANGED parserVars

\* return data.
ReturnData ==
    /\ InPayload("for")
    /\ call.i >= Len(call.serialTypes)
    /\ call' = [call EXCEPT !.at = "done"]
    /\ ret' = [fn |-> "parseCellPayload", returned |-> Returned(call.data)]
    /\ UNCHANGED parserVars

NextPayload ==
    \/ EnterParseCellPayload
    \/ HeaderStep
    \/ LeaveHeaderLoop
    \/ ColumnStep
    \/ ColumnThrows
    \/ ReturnData

\* parseCellPayload is synchronous: once called it runs, step after step,
\* until it returns or throws.
SpecPayload == InitPayload /\ [][NextPayload]_vars /\ WF_vars(NextPayload)

---------------------------------------------------------------------------
(* Claims about the loops of parseCellPayload, checked under SpecPayload   *)

\* The readVarint call of the step reported between 1 and 9 bytes consumed,
\* and the remaining-byte counter went down by as many.
CounterDecreases ==
    HeaderStep =>
        /\ call'.offset - call.offset \in 1..9
        /\ call'.headerRemainingBytes
               = call.headerRemainingBytes - (call'.offset - call.offset)
        /\ call'.headerRemainingBytes < call.headerRemainingBytes

\* The header loop has read no more serial types than the header size
\* leaves bytes after the header size varint.
SerialTypesBounded ==
    call.fn = "parseCellPayload" =>
        /\ call.headerSizeBytes \in 1..9
        /\ Len(call.serialTypes) <= IF call.headerSize > call.headerSizeBytes
                                    THEN call.headerSize - call.headerSizeBytes
                                    ELSE 0

\* C11: parseCellPayload terminates on every buffer and offset (an empty
\* buffer, an offset at or past the end, a header size larger than the
\* bytes available included): every readVarint call reports 1 to 9 bytes
\* consumed, so the remaining-byte counter of the header loop strictly
\* decreases, the loop reads at most headerSize - headerSizeBytes serial
\* types, and the call, once made, returns or throws.
C11_PayloadTerminates ==
    /\ [][CounterDecreases]_vars
    /\ []SerialTypesBounded
    /\ (call.fn = "parseCellPayload") ~> InPayload("done")

\* The call ended after a header loop that read more serial types than the
\* buffer holds bytes: a header size larger than the bytes available.
C11_Witness ==
    /\ InPayload("done")
    /\ Len(call.serialTypes) > Len(call.buffer)
    /\ ret.fn = "parseCellPayload"
    /\ ~ret.returned.throws

===========================================================================
